---------------------------- MODULE Spec2Model ----------------------------
(* Project-Management-Dashboard: the three-stage pipeline of src/main.py   *)
(* (load_project_data, research_agent_task, blocker_detection_agent_task,  *)
(* action_planner_agent_task, run_agents) and the content-addressed cache  *)
(* in front of it (src/api.py over RedisManager of                         *)
(* src/pm_dashboard/utils.py).                                             *)
(*                                                                         *)
(* BaseAgent._parse_json_response of src/pm_dashboard/agents/base_agent.py *)
(* is modelled beside them.                                                *)
(*                                                                         *)
(* Four specifications share the module:                                   *)
(*   SpecPipeline  one run of run_agents on a bounded, arbitrary source;   *)
(*   Spec          the HTTP handlers of src/api.py over the cache backend; *)
(*   SpecParser    one call of _parse_json_response on a bounded text;     *)
(*   SpecSingleton the constructions of RedisManager(), at import and by   *)
(*                 concurrent callers afterwards.                          *)
EXTENDS Integers, Sequences, FiniteSets, TLC

VARIABLES
    \* ---- SpecPipeline: one run of run_agents(filepath) ----
    plStage,     \* position inside run_agents: "start", "loaded", "context",
                 \* "blockers", "done", "raised"
    plSrc,       \* what the file at filepath is (the input of the run)
    plData,      \* the DataFrame load_project_data returned
    plContext,   \* research_agent_task's return value
    plBlockers,  \* blocker_detection_agent_task's return value
    plActions,   \* action_planner_agent_task's return value
    plCalls,     \* the completion calls made so far: [stage, ok]
    \* ---- both ----
    apiKey,      \* OPENAI_API_KEY is set (a completion client is configured)
    \* ---- Spec: the API process and the cache backend ----
    store,       \* the Redis keyspace: key -> stored text
    connected,   \* RedisManager._is_connected
    client,      \* RedisManager._redis_client is not None
    pc,          \* position of the dashboard request in flight, or "idle"
    cur,         \* the dashboard request in flight
    last,        \* the operation that completed last
    \* ---- SpecParser: one call of _parse_json_response(response) ----
    prStage,     \* "start", "returned", "raised"
    prText,      \* the response text, a sequence of tokens
    prResult,    \* what the call returned
    \* ---- SpecSingleton: RedisManager.__new__ ----
    smInstance,  \* RedisManager._instance: 0 for None, else the instance's number
    smCreated,   \* how many instances super().__new__ has created
    smInits,     \* how many times _initialize has run
    smPc,        \* each caller's position inside RedisManager()
    smGot        \* the instance each caller was returned last (0: none yet)

plVars    == <<plStage, plSrc, plData, plContext, plBlockers, plActions, plCalls>>
apiVars   == <<store, connected, client, pc, cur, last>>
parseVars == <<prStage, prText, prResult>>
singletonVars == <<smInstance, smCreated, smInits, smPc, smGot>>
vars      == <<plStage, plSrc, plData, plContext, plBlockers, plActions, plCalls,
               apiKey, store, connected, client, pc, cur, last,
               prStage, prText, prResult,
               smInstance, smCreated, smInits, smPc, smGot>>

-----------------------------------------------------------------------------
(* Bounds of the model.                                                    *)

\* Longest table (in rows) SpecPipeline draws exhaustively.
MaxRows == 2

-----------------------------------------------------------------------------
(* Python values.  A value is a record [t, v]: t is its type, v the text   *)
(* str() gives for it, as a sequence of characters (or of longer fragments *)
(* where no operation looks inside them).                                  *)

Str(cs)      == [t |-> "str", v |-> cs]
\* A blank spreadsheet cell: pandas gives float('nan').
NaN          == [t |-> "float", v |-> <<"n", "a", "n">>]
\* A date cell: pandas gives a datetime, which json.dumps cannot encode.
Datetime(cs) == [t |-> "datetime", v |-> cs]
\* Python's None, and the python str() of a value.
None         == [t |-> "NoneType", v |-> <<"N", "o", "n", "e">>]
PyStr(x)     == Str(x.v)
EmptyStr     == Str(<< >>)

Uppercase == <<"A", "B", "C", "D", "E", "F", "G", "H", "I", "J", "K", "L", "M",
               "N", "O", "P", "Q", "R", "S", "T", "U", "V", "W", "X", "Y", "Z">>
Lowercase == <<"a", "b", "c", "d", "e", "f", "g", "h", "i", "j", "k", "l", "m",
               "n", "o", "p", "q", "r", "s", "t", "u", "v", "w", "x", "y", "z">>
Whitespace == {" ", "\t", "\n"}

\* str.lower(), character by character.
LowerChar(c) ==
    IF \E i \in 1..Len(Uppercase) : Uppercase[i] = c
    THEN Lowercase[CHOOSE i \in 1..Len(Uppercase) : Uppercase[i] = c]
    ELSE c
Lower(cs) == [i \in 1..Len(cs) |-> LowerChar(cs[i])]

\* str.strip(): leading and trailing whitespace removed, inner kept.
RECURSIVE LStrip(_)
LStrip(cs) ==
    IF cs # << >> /\ Head(cs) \in Whitespace THEN LStrip(Tail(cs)) ELSE cs
RECURSIVE RStrip(_)
RStrip(cs) ==
    IF cs # << >> /\ cs[Len(cs)] \in Whitespace
    THEN RStrip(SubSeq(cs, 1, Len(cs) - 1))
    ELSE cs
Strip(cs) == RStrip(LStrip(cs))

-----------------------------------------------------------------------------
(* The spreadsheet.  A DataFrame is [columns, rows]; a row is a function   *)
(* from the columns to cell values.                                        *)

AllColumns == {"Goal Description", "Status", "Team Member", "Month", "Goal Type"}

\* The DataFrame load_project_data substitutes when loading fails.
PlaceholderData ==
    [columns |-> AllColumns,
     rows |-> << [c \in AllColumns |->
                    CASE c = "Goal Description" -> Str(<<"Sample Task">>)
                      [] c = "Status" ->
                           Str(<<"I", "n", " ", "P", "r", "o", "g", "r", "e", "s", "s">>)
                      [] c = "Team Member" -> Str(<<"Sample User">>)
                      [] c = "Month" -> Str(<<"2024-01">>)
                      [] c = "Goal Type" -> Str(<<"Sample Goal">>)] >>]

\* A source is a missing file, a file pandas cannot read, or a table
\* (possibly without rows: DataFrame.empty).
load_project_data(src) ==
    IF src.kind = "table" /\ src.df.rows # << >> /\ src.df.columns # {}
    THEN src.df
    ELSE PlaceholderData

-----------------------------------------------------------------------------
(* Agent 1: research_agent_task.                                           *)

\* row[col] if col in row else ''
Cell(data, row, col) == IF col \in data.columns THEN row[col] ELSE EmptyStr

\* A faulty variant of the operator below: duplicates are kept.
RECURSIVE DropNaKeepDuplicates(_, _)
DropNaKeepDuplicates(cells, seen) ==
    IF cells = << >> THEN seen
    ELSE IF Head(cells) = NaN
         THEN DropNaKeepDuplicates(Tail(cells), seen)
         ELSE DropNaKeepDuplicates(Tail(cells), Append(seen, Head(cells)))
\* Series.dropna().unique().tolist(): NaN cells dropped, then the distinct
\* values in order of first occurrence.
RECURSIVE DropNaUnique(_, _)
DropNaUnique(cells, seen) ==
    IF cells = << >> THEN seen
    ELSE LET c == Head(cells) IN
         IF c = NaN \/ \E i \in 1..Len(seen) : seen[i] = c
         THEN DropNaUnique(Tail(cells), seen)
         ELSE DropNaUnique(Tail(cells), Append(seen, c))

research_agent_task(data) ==
    [summary    |-> Str(<<"Project has ", ToString(Len(data.rows)), " goals/tasks.">>),
     milestones |-> IF "Month" \in data.columns
                    THEN DropNaUnique([i \in 1..Len(data.rows) |-> data.rows[i]["Month"]],
                                      << >>)
                    ELSE << >>,
     updates    |-> << >>,
     tasks      |-> [i \in 1..Len(data.rows) |->
                       [Task     |-> Cell(data, data.rows[i], "Goal Description"),
                        Status   |-> Cell(data, data.rows[i], "Status"),
                        Owner    |-> Cell(data, data.rows[i], "Team Member"),
                        DueDate  |-> Cell(data, data.rows[i], "Month"),
                        GoalType |-> Cell(data, data.rows[i], "Goal Type")]]]

-----------------------------------------------------------------------------
(* Agent 2: blocker_detection_agent_task.                                  *)

\* A faulty variant of the list below: 'delayed' is missing.
blocker_statuses_without_delayed ==
    { <<"b", "l", "o", "c", "k", "e", "d">>,
      <<"o", "v", "e", "r", "d", "u", "e">>,
      <<"n", "o", "t", " ", "s", "t", "a", "r", "t", "e", "d">>,
      <<"p", "e", "n", "d", "i", "n", "g">> }
blocker_statuses ==
    { <<"b", "l", "o", "c", "k", "e", "d">>,
      <<"d", "e", "l", "a", "y", "e", "d">>,
      <<"o", "v", "e", "r", "d", "u", "e">>,
      <<"n", "o", "t", " ", "s", "t", "a", "r", "t", "e", "d">>,
      <<"p", "e", "n", "d", "i", "n", "g">> }

\* A faulty variant of the test below: lstrip() in place of strip().
IsBlockerStatusLeftTrimmed(status) == Lower(LStrip(PyStr(status).v)) \in blocker_statuses
\* status = str(task.get('Status', '')).strip().lower(); status in blocker_statuses
IsBlockerStatus(status) == Lower(Strip(PyStr(status).v)) \in blocker_statuses

\* The dict appended for a blocking task.
BlockerOf(task) ==
    [task   |-> task.Task,
     reason |-> task.Status,
     owner  |-> task.Owner,
     due    |-> PyStr(task.DueDate)]

\* A faulty variant of the loop below: a blocking task is appended twice.
RECURSIVE DetectBlockersTwice(_)
DetectBlockersTwice(tasks) ==
    IF tasks = << >> THEN << >>
    ELSE IF IsBlockerStatus(Head(tasks).Status)
         THEN <<BlockerOf(Head(tasks)), BlockerOf(Head(tasks))>>
              \o DetectBlockersTwice(Tail(tasks))
         ELSE DetectBlockersTwice(Tail(tasks))
\* The loop over context['tasks'] (lines 66-74).
RECURSIVE DetectBlockers(_)
DetectBlockers(tasks) ==
    IF tasks = << >> THEN << >>
    ELSE IF IsBlockerStatus(Head(tasks).Status)
         THEN <<BlockerOf(Head(tasks))>> \o DetectBlockers(Tail(tasks))
         ELSE DetectBlockers(Tail(tasks))

\* The outcome of client.chat.completions.create(...): the call raises
\* or returns a message text.  The stages have no try/except around it.
CompletionFailed == [ok |-> FALSE, text |-> << >>]
AnalysisTexts    == { <<" ", "R", "i", "s", "k", "\n">> }
PlanTexts        == { <<" ", "P", "1", "\n">>, <<"P", "2">> }
AnalysisOutcomes == {CompletionFailed} \cup {[ok |-> TRUE, text |-> t] : t \in AnalysisTexts}
PlanOutcomes     == {CompletionFailed} \cup {[ok |-> TRUE, text |-> t] : t \in PlanTexts}

Raised == [raised |-> TRUE]
Returned(v) == [raised |-> FALSE, value |-> v]

\* A faulty variant of the test below: the call is made without blockers.
BlockerStageCallsWithoutBlockers(blockers, key) == key
\* if OPENAI_API_KEY and blockers: (line 76)
BlockerStageCalls(blockers, key) == key /\ blockers # << >>

\* llm is the outcome of the completion call, should the stage make it.
blocker_detection_agent_task(context, key, llm) ==
    LET blockers == DetectBlockers(context.tasks) IN
    IF BlockerStageCalls(blockers, key)
    THEN IF llm.ok
         THEN Returned([blockers |->
                          Append(blockers, [llm_analysis |-> Str(Strip(llm.text))])])
         ELSE Raised
    ELSE Returned([blockers |-> blockers])

-----------------------------------------------------------------------------
(* Agent 3: action_planner_agent_task.                                     *)

\* A faulty variant of the fallback below: another text.
FallbackActionReworded == Str(<<"No actions required.">>)
FallbackAction == Str(<<"No immediate actions required. Monitor project progress.">>)

\* f"Follow up with {owner} on '{task}' (Reason: {reason}, Due: {due})"
FollowUp(b) ==
    Str(<<"Follow up with ">> \o b.owner.v \o <<" on '">> \o b.task.v
        \o <<"' (Reason: ">> \o b.reason.v \o <<", Due: ">> \o b.due.v \o <<")">>)

\* A faulty variant of the loop below: an entry with an empty task is skipped.
RECURSIVE FollowUpsNonEmptyTask(_)
FollowUpsNonEmptyTask(bs) ==
    IF bs = << >> THEN << >>
    ELSE IF "task" \in DOMAIN Head(bs) /\ Head(bs).task # EmptyStr
         THEN <<FollowUp(Head(bs))>> \o FollowUpsNonEmptyTask(Tail(bs))
         ELSE FollowUpsNonEmptyTask(Tail(bs))
\* The loop over blockers['blockers'] (lines 90-92).
RECURSIVE FollowUps(_)
FollowUps(bs) ==
    IF bs = << >> THEN << >>
    ELSE IF "task" \in DOMAIN Head(bs)
         THEN <<FollowUp(Head(bs))>> \o FollowUps(Tail(bs))
         ELSE FollowUps(Tail(bs))

\* if OPENAI_API_KEY: (line 96)
ActionStageCalls(key) == key

\* A faulty variant of the stage below: the fallback is missing.
action_planner_without_fallback(context, blockers, key, llm) ==
    LET actions == FollowUps(blockers.blockers)
    IN  IF ActionStageCalls(key)
        THEN IF llm.ok
             THEN Returned([actions |-> Append(actions, Str(Strip(llm.text)))])
             ELSE Raised
        ELSE Returned([actions |-> actions])
\* A faulty variant of the stage below: the plan replaces the actions.
action_planner_plan_replaces(context, blockers, key, llm) ==
    LET followups == FollowUps(blockers.blockers)
        actions   == IF followups = << >> THEN <<FallbackAction>> ELSE followups
    IN  IF ActionStageCalls(key)
        THEN IF llm.ok
             THEN Returned([actions |-> <<Str(Strip(llm.text))>>])
             ELSE Raised
        ELSE Returned([actions |-> actions])
action_planner_agent_task(context, blockers, key, llm) ==
    LET followups == FollowUps(blockers.blockers)
        actions   == IF followups = << >> THEN <<FallbackAction>> ELSE followups
    IN  IF ActionStageCalls(key)
        THEN IF llm.ok
             THEN Returned([actions |-> Append(actions, Str(Strip(llm.text)))])
             ELSE Raised
        ELSE Returned([actions |-> actions])

-----------------------------------------------------------------------------
(* Orchestration: run_agents, as one function of the source and of the     *)
(* outcomes of the (at most two) completion calls.                         *)

run_agents(src, key, llmB, llmA) ==
    LET data     == load_project_data(src)
        context  == research_agent_task(data)
        blockers == blocker_detection_agent_task(context, key, llmB)
    IN  IF blockers.raised THEN Raised
        ELSE LET actions ==
                   action_planner_agent_task(context, blockers.value, key, llmA)
             IN  IF actions.raised THEN Raised
                 ELSE Returned([context  |-> context,
                                blockers |-> blockers.value,
                                actions  |-> actions.value])

-----------------------------------------------------------------------------
(* The sources SpecPipeline draws its input from.                          *)

Blocked    == Str(<<"B", "l", "o", "c", "k", "e", "d">>)
Done       == Str(<<"D", "o", "n", "e">>)
PendingSp  == Str(<<"p", "e", "n", "d", "i", "n", "g", " ">>)
SpOVERDUE  == Str(<<" ", "O", "V", "E", "R", "D", "U", "E">>)
InProgress == Str(<<"I", "n", " ", "P", "r", "o", "g", "r", "e", "s", "s">>)
Delayed    == Str(<<"D", "e", "l", "a", "y", "e", "d">>)

StatusCells == {Blocked, Done, PendingSp, SpOVERDUE, NaN}
MonthCells  == {Str(<<"Jan">>), NaN, Datetime(<<"2024-02-01 00:00:00">>)}
ColumnSets  == {AllColumns,
                AllColumns \ {"Goal Description"},
                AllColumns \ {"Month"},
                AllColumns \ {"Status"}}

SheetRow(status, month) ==
    [c \in AllColumns |->
        CASE c = "Goal Description" -> Str(<<"Ship v2">>)
          [] c = "Status" -> status
          [] c = "Team Member" -> Str(<<"Ana">>)
          [] c = "Month" -> month
          [] c = "Goal Type" -> Str(<<"Q1">>)]

Restrict(row, cols) == [c \in cols |-> row[c]]
Table(cols, rows) ==
    [kind |-> "table",
     df |-> [columns |-> cols,
             rows |-> [i \in 1..Len(rows) |-> Restrict(rows[i], cols)]]]

SheetRows == {SheetRow(s, m) : s \in StatusCells, m \in MonthCells}
RowSeqs   == UNION {[1..n -> SheetRows] : n \in 0..MaxRows}

\* The two tables of the specification's scenarios.
FourStatuses  == <<SheetRow(Blocked, Str(<<"Jan">>)), SheetRow(Done, Str(<<"Jan">>)),
                   SheetRow(PendingSp, Str(<<"Feb">>)), SheetRow(SpOVERDUE, Str(<<"Feb">>))>>
ThreeStatuses == <<SheetRow(Blocked, Str(<<"Jan">>)), SheetRow(InProgress, Str(<<"Jan">>)),
                   SheetRow(Delayed, Str(<<"Feb">>))>>

Sources ==
    {[kind |-> "missing"], [kind |-> "unreadable"]}
    \cup {Table(cs, rs) : cs \in ColumnSets, rs \in RowSeqs}
    \cup {Table(AllColumns, FourStatuses), Table(AllColumns, ThreeStatuses)}

-----------------------------------------------------------------------------
(* The values the variables of one specification hold under the other.     *)

NoValue   == [t |-> "unset"]
NoRequest == [op |-> "none"]
NoOp      == [op |-> "none"]
EmptyStore == << >>
\* A key of another user of the same Redis: the keyspace is shared.
ForeignKey == [prefix |-> "cache:", digest |-> "report:():{}"]
ForeignStore == (ForeignKey :> [foreign |-> "text"]) @@ EmptyStore

PipelineOff ==
    /\ plStage = "off"
    /\ plSrc = NoValue
    /\ plData = NoValue
    /\ plContext = NoValue
    /\ plBlockers = NoValue
    /\ plActions = NoValue
    /\ plCalls = {}

ApiOff ==
    /\ store = EmptyStore
    /\ connected = FALSE
    /\ client = FALSE
    /\ pc = "off"
    /\ cur = NoRequest
    /\ last = NoOp

ParserOff ==
    /\ prStage = "off"
    /\ prText = NoValue
    /\ prResult = NoValue

SingletonOff ==
    /\ smInstance = 0
    /\ smCreated = 0
    /\ smInits = 0
    /\ smPc = << >>
    /\ smGot = << >>

-----------------------------------------------------------------------------
(* SpecPipeline: run_agents(filepath), one stage per step.                 *)

InitPipeline ==
    /\ plStage = "start"
    /\ plSrc \in Sources
    /\ plData = NoValue
    /\ plContext = NoValue
    /\ plBlockers = NoValue
    /\ plActions = NoValue
    /\ plCalls = {}
    /\ apiKey \in BOOLEAN
    /\ ApiOff
    /\ ParserOff
    /\ SingletonOff

\* data = load_project_data(filepath)
Load ==
    /\ plStage = "start"
    /\ plData' = load_project_data(plSrc)
    /\ plStage' = "loaded"
    /\ UNCHANGED <<plSrc, plContext, plBlockers, plActions, plCalls, apiKey,
                   apiVars, parseVars, singletonVars>>

\* context = research_agent.process(data)
Research ==
    /\ plStage = "loaded"
    /\ plContext' = research_agent_task(plData)
    /\ plStage' = "context"
    /\ UNCHANGED <<plSrc, plData, plBlockers, plActions, plCalls, apiKey,
                   apiVars, parseVars, singletonVars>>

\* blockers = blocker_agent.process(context)
DetectStage ==
    /\ plStage = "context"
    /\ \E llm \in AnalysisOutcomes :
         LET r == blocker_detection_agent_task(plContext, apiKey, llm) IN
         /\ plCalls' = IF BlockerStageCalls(DetectBlockers(plContext.tasks), apiKey)
                       THEN plCalls \cup {[stage |-> "blocker", ok |-> llm.ok]}
                       ELSE plCalls
         /\ IF r.raised
            THEN /\ plStage' = "raised"
                 /\ UNCHANGED plBlockers
            ELSE /\ plStage' = "blockers"
                 /\ plBlockers' = r.value
    /\ UNCHANGED <<plSrc, plData, plContext, plActions, apiKey, apiVars, parseVars, singletonVars>>

\* actions = planner_agent.process(context, blockers)
PlanStage ==
    /\ plStage = "blockers"
    /\ \E llm \in PlanOutcomes :
         LET r == action_planner_agent_task(plContext, plBlockers, apiKey, llm) IN
         /\ plCalls' = IF ActionStageCalls(apiKey)
                       THEN plCalls \cup {[stage |-> "action", ok |-> llm.ok]}
                       ELSE plCalls
         /\ IF r.raised
            THEN /\ plStage' = "raised"
                 /\ UNCHANGED plActions
            ELSE /\ plStage' = "done"
                 /\ plActions' = r.value
    /\ UNCHANGED <<plSrc, plData, plContext, plBlockers, apiKey, apiVars, parseVars, singletonVars>>

NextPipeline == Load \/ Research \/ DetectStage \/ PlanStage

SpecPipeline == InitPipeline /\ [][NextPipeline]_vars

-----------------------------------------------------------------------------
(* json.dumps / json.loads on the response dict.                           *)

\* JSON has strings and (as Python writes them) NaN; a datetime has no
\* encoding: json.dumps raises TypeError.
Encodable(x) == x.t \in {"str", "float"}
EncLeaf(x) == IF x.t = "str" THEN [j |-> "string", s |-> x.v] ELSE [j |-> "NaN"]
DecLeaf(y) == IF y.j = "string" THEN Str(y.s) ELSE NaN

EncDict(d) == [k \in DOMAIN d |-> EncLeaf(d[k])]
DecDict(d) == [k \in DOMAIN d |-> DecLeaf(d[k])]

DictEncodable(d) == \A k \in DOMAIN d : Encodable(d[k])
ListEncodable(l) == \A i \in 1..Len(l) : Encodable(l[i])

JsonEncodable(r) ==
    /\ Encodable(r.summary)
    /\ ListEncodable(r.milestones)
    /\ ListEncodable(r.updates)
    /\ \A i \in 1..Len(r.tasks) : DictEncodable(r.tasks[i])
    /\ \A i \in 1..Len(r.blockers) : DictEncodable(r.blockers[i])
    /\ ListEncodable(r.actions)

\* json.dumps(value): the text, or TypeError.
json_dumps(r) ==
    IF JsonEncodable(r)
    THEN [ok   |-> TRUE,
          text |-> [summary    |-> EncLeaf(r.summary),
                    milestones |-> [i \in 1..Len(r.milestones) |-> EncLeaf(r.milestones[i])],
                    updates    |-> [i \in 1..Len(r.updates) |-> EncLeaf(r.updates[i])],
                    tasks      |-> [i \in 1..Len(r.tasks) |-> EncDict(r.tasks[i])],
                    blockers   |-> [i \in 1..Len(r.blockers) |-> EncDict(r.blockers[i])],
                    actions    |-> [i \in 1..Len(r.actions) |-> EncLeaf(r.actions[i])],
                    cached     |-> IF r.cached THEN "true" ELSE "false"]]
    ELSE [ok |-> FALSE]

\* json.loads(text) of a text json_dumps wrote.
json_loads(x) ==
    [summary    |-> DecLeaf(x.summary),
     milestones |-> [i \in 1..Len(x.milestones) |-> DecLeaf(x.milestones[i])],
     updates    |-> [i \in 1..Len(x.updates) |-> DecLeaf(x.updates[i])],
     tasks      |-> [i \in 1..Len(x.tasks) |-> DecDict(x.tasks[i])],
     blockers   |-> [i \in 1..Len(x.blockers) |-> DecDict(x.blockers[i])],
     actions    |-> [i \in 1..Len(x.actions) |-> DecLeaf(x.actions[i])],
     cached     |-> (x.cached = "true")]

-----------------------------------------------------------------------------
(* RedisManager (src/pm_dashboard/utils.py).  Every Redis command either   *)
(* answers or raises RedisError; the outcome is an input of the operator.  *)

\* is_connected(): [result, connected], connected being _is_connected after.
RedisManager_is_connected(conn, cli, pingOk) ==
    IF ~conn \/ ~cli THEN [result |-> FALSE, connected |-> conn]
    ELSE IF pingOk THEN [result |-> TRUE, connected |-> conn]
    ELSE [result |-> FALSE, connected |-> FALSE]

\* get(key): [value, connected]; value is None on a miss and on any failure.
RedisManager_get(conn, cli, st, key, pingOk, cmdOk) ==
    LET ic == RedisManager_is_connected(conn, cli, pingOk) IN
    IF ~ic.result THEN [value |-> None, connected |-> ic.connected]
    ELSE IF ~cmdOk THEN [value |-> None, connected |-> ic.connected]
    ELSE IF key \notin DOMAIN st THEN [value |-> None, connected |-> ic.connected]
    ELSE [value |-> json_loads(st[key]), connected |-> ic.connected]

\* A faulty variant of set below: the except clause is missing.
RedisManager_set_uncaught(conn, cli, st, key, value, pingOk, cmdOk) ==
    LET ic  == RedisManager_is_connected(conn, cli, pingOk)
        txt == json_dumps(value)
    IN  IF ~ic.result
        THEN [result |-> FALSE, raised |-> FALSE, connected |-> ic.connected, store |-> st]
        ELSE IF ~txt.ok \/ ~cmdOk
        THEN [result |-> FALSE, raised |-> TRUE, connected |-> ic.connected, store |-> st]
        ELSE [result |-> TRUE, raised |-> FALSE, connected |-> ic.connected,
              store |-> (key :> txt.text) @@ st]
\* set(key, value): [result, raised, connected, store].  TypeError (from
\* json.dumps) and RedisError are caught: set never raises.
RedisManager_set(conn, cli, st, key, value, pingOk, cmdOk) ==
    LET ic  == RedisManager_is_connected(conn, cli, pingOk)
        txt == json_dumps(value)
    IN  IF ~ic.result
        THEN [result |-> FALSE, raised |-> FALSE, connected |-> ic.connected, store |-> st]
        ELSE IF ~txt.ok \/ ~cmdOk
        THEN [result |-> FALSE, raised |-> FALSE, connected |-> ic.connected, store |-> st]
        ELSE [result |-> TRUE, raised |-> FALSE, connected |-> ic.connected,
              store |-> (key :> txt.text) @@ st]

\* KEYS pattern: a pattern is a literal prefix and a glob, "*" or a digest.
KeyMatches(key, pattern) ==
    /\ key.prefix = pattern.prefix
    /\ (pattern.glob = "*" \/ key.digest = pattern.glob)
KeysMatching(st, pattern) == {k \in DOMAIN st : KeyMatches(k, pattern)}

\* client.keys("dashboard:*") (api.py line 144)
DashboardKeys(st) == {k \in DOMAIN st : k.prefix = "dashboard:"}

\* A faulty variant of clear_cache below: nothing is deleted.
RedisManager_clear_cache_none(conn, cli, st, pattern, pingOk, keysOk, delOk) ==
    [count |-> 0, connected |-> RedisManager_is_connected(conn, cli, pingOk).connected,
     store |-> st]
\* clear_cache(pattern): [count, connected, store].
RedisManager_clear_cache(conn, cli, st, pattern, pingOk, keysOk, delOk) ==
    LET ic   == RedisManager_is_connected(conn, cli, pingOk)
        keys == KeysMatching(st, pattern)
    IN  IF ~ic.result \/ ~keysOk \/ keys = {} \/ ~delOk
        THEN [count |-> 0, connected |-> ic.connected, store |-> st]
        ELSE [count |-> Cardinality(keys), connected |-> ic.connected,
              store |-> [k \in DOMAIN st \ keys |-> st[k]]]

-----------------------------------------------------------------------------
(* src/api.py.                                                             *)

\* A faulty variant of the digest below: the content is not hashed.
Sha256OfNothing(bytes) == "sha256()"
\* hashlib.sha256(file_content).hexdigest(): collision-free on the model's
\* handful of uploads.
Sha256(bytes) == "sha256(" \o bytes \o ")"

generate_cache_key(bytes) == [prefix |-> "dashboard:", digest |-> Sha256(bytes)]

\* The uploads of the model and what pd.read_excel makes of each: a sheet
\* of strings with two blockers, a sheet with a date cell, and bytes that
\* are no spreadsheet.
Uploads == {"sheet", "dated", "junk"}
ReadExcel(bytes) ==
    CASE bytes = "sheet" -> Table(AllColumns, ThreeStatuses)
      [] bytes = "dated" ->
           Table(AllColumns,
                 <<SheetRow(Blocked, Datetime(<<"2024-02-01 00:00:00">>))>>)
      [] bytes = "junk"  -> [kind |-> "unreadable"]

\* A faulty variant of the test below: the bypass flag is ignored.
LookupAlways(no_cache) == TRUE
\* not cache_control.no_cache (line 72, first conjunct)
LookupWanted(no_cache) == ~no_cache

\* if cached_data: (line 74)
Truthy(v) == v # None

\* A faulty variant of the response below: "cached" is left as stored.
HitResponseAsStored(cached_data, key) ==
    [k \in DOMAIN cached_data \cup {"cache_key"} |->
        IF k = "cache_key" THEN key ELSE cached_data[k]]
\* {**cached_data, "cached": True, "cache_key": cache_key} (lines 75-79)
HitResponse(cached_data, key) ==
    [k \in DOMAIN cached_data \cup {"cached", "cache_key"} |->
        CASE k = "cached" -> TRUE
          [] k = "cache_key" -> key
          [] OTHER -> cached_data[k]]

\* response_data (lines 92-100)
ResponseData(r) ==
    [summary    |-> r.context.summary,
     milestones |-> r.context.milestones,
     updates    |-> r.context.updates,
     tasks      |-> r.context.tasks,
     blockers   |-> r.blockers.blockers,
     actions    |-> r.actions.actions,
     cached     |-> FALSE]

\* HTTPException(500): what the caller gets when the try block raises.
ServerError == [error |-> "500 Error processing file"]

\* A faulty variant of the clause below: the file is left behind.
AfterFinallyKept(exists) == exists
\* finally: os.remove(tmp_path) (lines 112-117): whether the file still
\* exists afterwards.
AfterFinally(exists) == FALSE

-----------------------------------------------------------------------------
(* Spec: the API process.  One worker runs the handlers; after the await   *)
(* of file.read() a handler runs to its return without yielding, so a      *)
(* request starts only when none is in flight.  POST /dashboard is four    *)
(* steps (Start, Lookup, Process, Store), POST /cache/clear is one.        *)


\* The request as POST /dashboard receives it, with the notes the handler
\* leaves as it goes.
RequestRecord(bytes, no_cache, key) ==
    [op        |-> "dashboard",
     bytes     |-> bytes,
     no_cache  |-> no_cache,
     key       |-> key,
     lookup    |-> "pending",   \* "bypass", "unreachable", "get_failed", "miss", "hit"
     getCalled |-> FALSE,       \* redis_manager.get(cache_key) was called
     got       |-> None,        \* what it returned
     fault     |-> FALSE,       \* the manager was not connected, or a ping or a
                                \* command of this request raised RedisError
     tmp       |-> FALSE,       \* the temporary file exists
     ran       |-> FALSE,       \* run_agents was called
     computed  |-> NoValue,     \* response_data
     setLive   |-> FALSE,       \* is_connected() at line 103 was True
     setCalled |-> FALSE,       \* redis_manager.set(cache_key, response_data) was called
     setOk     |-> FALSE,       \* and returned True
     entryBefore |-> NoValue,   \* the text under key when set was called
     status    |-> "pending",   \* "ok", "error500"
     response  |-> NoValue]

\* A faulty variant of the request below: the bypass flag enters the key.
NewRequestKeyedByFlag(bytes, no_cache) ==
    RequestRecord(bytes, no_cache,
                  generate_cache_key(IF no_cache THEN bytes \o "&no_cache" ELSE bytes))
\* cache_key = generate_cache_key(file_content) (line 69); of the upload
\* the handler reads the content only (file.read(), line 66).
NewRequest(bytes, no_cache) ==
    RequestRecord(bytes, no_cache, generate_cache_key(bytes))

\* The state after import: redis_manager = RedisManager() has run
\* _initialize (Redis disabled, connected, or the first ping failed).
Init ==
    /\ PipelineOff
    /\ ParserOff
    /\ SingletonOff
    /\ apiKey \in BOOLEAN
    /\ store = ForeignStore
    /\ client \in BOOLEAN
    /\ connected \in (IF client THEN BOOLEAN ELSE {FALSE})
    /\ pc = "idle"
    /\ cur = NoRequest
    /\ last = NoOp

\* A handler returns (or raises its HTTPException).
Complete(record) ==
    /\ last' = record
    /\ cur' = NoRequest
    /\ pc' = "idle"

\* file_content = await file.read(); cache_key = generate_cache_key(...)
Start ==
    /\ pc = "idle"
    /\ \E bytes \in Uploads, no_cache \in BOOLEAN :
         cur' = NewRequest(bytes, no_cache)
    /\ pc' = "lookup"
    /\ UNCHANGED <<store, connected, client, last, apiKey, plVars, parseVars, singletonVars>>

\* Lines 71-79: the cache lookup, and the return on a hit.
Lookup ==
    /\ pc = "lookup"
    /\ \E ping1, ping2, getOk \in BOOLEAN :
         IF ~LookupWanted(cur.no_cache)
         THEN /\ cur' = [cur EXCEPT !.lookup = "bypass"]
              /\ pc' = "process"
              /\ UNCHANGED <<connected, last>>
         ELSE LET ic == RedisManager_is_connected(connected, client, ping1) IN
              IF ~ic.result
              THEN /\ cur' = [cur EXCEPT !.lookup = "unreachable", !.fault = TRUE]
                   /\ pc' = "process"
                   /\ connected' = ic.connected
                   /\ UNCHANGED last
              ELSE LET g == RedisManager_get(ic.connected, client, store, cur.key,
                                             ping2, getOk)
                       noted == [cur EXCEPT !.getCalled = TRUE, !.got = g.value]
                   IN  /\ connected' = g.connected
                       /\ IF Truthy(g.value)
                          THEN Complete([noted EXCEPT
                                           !.lookup = "hit",
                                           !.status = "ok",
                                           !.response = HitResponse(g.value, cur.key)])
                          ELSE /\ cur' = [noted EXCEPT
                                            !.lookup = IF ping2 /\ getOk THEN "miss"
                                                       ELSE "get_failed",
                                            !.fault = ~(ping2 /\ getOk)]
                               /\ pc' = "process"
                               /\ UNCHANGED last
    /\ UNCHANGED <<store, client, apiKey, plVars, parseVars, singletonVars>>

\* A faulty variant of the step below: the except clause writes an entry.
ProcessStoresOnError ==
    /\ pc = "process"
    /\ \E llmB \in AnalysisOutcomes, llmA \in PlanOutcomes :
         LET r     == run_agents(ReadExcel(cur.bytes), apiKey, llmB, llmA)
             noted == [cur EXCEPT !.ran = TRUE]
         IN  IF r.raised
             THEN /\ Complete([noted EXCEPT !.tmp = AfterFinally(TRUE),
                                            !.status = "error500",
                                            !.response = ServerError])
                  /\ store' = (cur.key :> [error |-> "500"]) @@ store
             ELSE /\ cur' = [noted EXCEPT !.tmp = TRUE,
                                          !.computed = ResponseData(r.value)]
                  /\ pc' = "store"
                  /\ UNCHANGED <<last, store>>
    /\ UNCHANGED <<connected, client, apiKey, plVars, parseVars, singletonVars>>
\* Lines 81-100 and 107-117: the temporary file, run_agents, response_data;
\* an exception of run_agents becomes the HTTPException, and the finally
\* clause removes the file.
Process ==
    /\ pc = "process"
    /\ \E llmB \in AnalysisOutcomes, llmA \in PlanOutcomes :
         LET r     == run_agents(ReadExcel(cur.bytes), apiKey, llmB, llmA)
             noted == [cur EXCEPT !.ran = TRUE]
         IN  IF r.raised
             THEN Complete([noted EXCEPT !.tmp = AfterFinally(TRUE),
                                         !.status = "error500",
                                         !.response = ServerError])
             ELSE /\ cur' = [noted EXCEPT !.tmp = TRUE,
                                          !.computed = ResponseData(r.value)]
                  /\ pc' = "store"
                  /\ UNCHANGED last
    /\ UNCHANGED <<store, connected, client, apiKey, plVars, parseVars, singletonVars>>

\* Lines 102-117: the store, the return, and the finally clause.  set is
\* called inside the try block: had it raised, the request would end in
\* the HTTPException.
Store ==
    /\ pc = "store"
    /\ \E ping1, ping2, setOk \in BOOLEAN :
         LET ic == RedisManager_is_connected(connected, client, ping1) IN
         IF ~ic.result
         THEN /\ connected' = ic.connected
              /\ store' = store
              /\ Complete([cur EXCEPT !.tmp = AfterFinally(cur.tmp),
                                      !.fault = TRUE,
                                      !.status = "ok",
                                      !.response = cur.computed])
         ELSE LET w == RedisManager_set(ic.connected, client, store, cur.key,
                                        cur.computed, ping2, setOk)
                  noted == [cur EXCEPT
                              !.tmp = AfterFinally(cur.tmp), !.setLive = TRUE,
                              !.setCalled = TRUE, !.setOk = w.result,
                              !.entryBefore = IF cur.key \in DOMAIN store
                                              THEN store[cur.key] ELSE NoValue,
                              !.fault = \/ cur.fault
                                        \/ ~ping2
                                        \/ json_dumps(cur.computed).ok /\ ~setOk]
              IN  /\ connected' = w.connected
                  /\ store' = w.store
                  /\ IF w.raised
                     THEN Complete([noted EXCEPT !.status = "error500",
                                                 !.response = ServerError])
                     ELSE Complete([noted EXCEPT !.status = "ok",
                                                 !.response = cur.computed])
    /\ UNCHANGED <<client, apiKey, plVars, parseVars, singletonVars>>

\* POST /cache/clear?pattern= (lines 120-127).
ClearPatterns == {"*"} \cup {Sha256(b) : b \in Uploads}
ClearCache ==
    /\ pc = "idle"
    /\ \E glob \in ClearPatterns, ping1, ping2, keysOk, delOk \in BOOLEAN :
         LET pattern == [prefix |-> "dashboard:", glob |-> glob]
             ic      == RedisManager_is_connected(connected, client, ping1)
             note    == [op        |-> "clear",
                         glob      |-> glob,
                         matched   |-> KeysMatching(store, pattern),
                         backendOk |-> ic.result /\ ping2 /\ keysOk /\ delOk]
         IN  IF ~ic.result
             THEN /\ connected' = ic.connected
                  /\ store' = store
                  /\ last' = [status  |-> "error",
                              message |-> "Redis is not available",
                              count   |-> -1] @@ note
             ELSE LET c == RedisManager_clear_cache(ic.connected, client, store,
                                                    pattern, ping2, keysOk, delOk)
                  IN  /\ connected' = c.connected
                      /\ store' = c.store
                      /\ last' = [status  |-> "success",
                                  message |-> "Cleared {count} cache entries",
                                  count   |-> c.count] @@ note
    /\ UNCHANGED <<client, pc, cur, apiKey, plVars, parseVars, singletonVars>>

\* GET /cache/stats (lines 129-157).
CacheStats ==
    /\ pc = "idle"
    /\ \E ping1, infoOk, keysOk \in BOOLEAN :
         LET ic == RedisManager_is_connected(connected, client, ping1) IN
         /\ connected' = ic.connected
         /\ last' = IF ~ic.result
                    THEN [op |-> "stats", status |-> "error",
                          message |-> "Redis is not available"]
                    ELSE IF ~infoOk \/ ~keysOk
                    THEN [op |-> "stats", status |-> "error",
                          message |-> "Error getting cache stats"]
                    ELSE [op |-> "stats", status |-> "success",
                          cache_entries |-> Cardinality(DashboardKeys(store))]
    /\ UNCHANGED <<store, client, pc, cur, apiKey, plVars, parseVars, singletonVars>>

Next == Start \/ Lookup \/ Process \/ Store \/ ClearCache \/ CacheStats

Spec == Init /\ [][Next]_vars

-----------------------------------------------------------------------------
(* BaseAgent._parse_json_response (src/pm_dashboard/agents/base_agent.py). *)
(* A response text is a sequence of tokens: a brace, a character that is   *)
(* neither a brace nor JSON, or a whole member of a JSON object.           *)

\* The member "a":1, and a member whose value is an integer literal of
\* 5000 digits (valid JSON; int() refuses more than 4300 digits).
Member     == "\"a\":1"
HugeMember == "\"a\":999...9"
Tokens     == {"x", "{", "}", Member, HugeMember}

\* Longest response text (in tokens) SpecParser draws.
MaxText == 5

\* str.find / str.rfind: the 0-based index of the first / last occurrence,
\* or -1.
Find(text, tok) ==
    IF \E i \in 1..Len(text) : text[i] = tok
    THEN (CHOOSE i \in 1..Len(text) :
            text[i] = tok /\ \A j \in 1..(i - 1) : text[j] # tok) - 1
    ELSE -1
RFind(text, tok) ==
    IF \E i \in 1..Len(text) : text[i] = tok
    THEN (CHOOSE i \in 1..Len(text) :
            text[i] = tok /\ \A j \in (i + 1)..Len(text) : text[j] # tok) - 1
    ELSE -1

\* text[a:b]: a negative index counts from the end, and both are clamped.
PyIndex(text, i) ==
    IF i < 0 THEN (IF Len(text) + i < 0 THEN 0 ELSE Len(text) + i)
    ELSE IF i > Len(text) THEN Len(text) ELSE i
PySlice(text, a, b) == SubSeq(text, PyIndex(text, a) + 1, PyIndex(text, b))

\* json.loads(json_str), scanning left to right: the value, JSONDecodeError,
\* or the ValueError of int() on the oversized literal (raised as soon as
\* the number is scanned, and no JSONDecodeError).
EmptyMapping == << >>
json_loads_text(ts) ==
    IF ts = << >> \/ ts[1] # "{" \/ Len(ts) < 2
    THEN [kind |-> "JSONDecodeError"]
    ELSE IF ts[2] = HugeMember
    THEN [kind |-> "ValueError"]
    ELSE IF ts[2] = "}"
    THEN IF Len(ts) = 2 THEN [kind |-> "value", value |-> EmptyMapping]
         ELSE [kind |-> "JSONDecodeError"]
    ELSE IF ts[2] = Member /\ Len(ts) = 3 /\ ts[3] = "}"
    THEN [kind |-> "value", value |-> [a |-> 1]]
    ELSE [kind |-> "JSONDecodeError"]

\* {"error": f"Failed to parse response: {str(e)}"} (line 89)
ParseErrorValue == [error |-> "Failed to parse response"]

\* Lines 80-89: only json.JSONDecodeError is caught.
parse_json_response(response) ==
    LET start_idx == Find(response, "{")
        end_idx   == RFind(response, "}") + 1
        json_str  == PySlice(response, start_idx, end_idx)
        loaded    == json_loads_text(json_str)
    IN  CASE loaded.kind = "value" -> Returned(loaded.value)
          [] loaded.kind = "JSONDecodeError" -> Returned(ParseErrorValue)
          [] OTHER -> Raised

ResponseTexts == UNION {[1..n -> Tokens] : n \in 0..MaxText}

InitParser ==
    /\ prStage = "start"
    /\ prText \in ResponseTexts
    /\ prResult = NoValue
    /\ apiKey = TRUE
    /\ PipelineOff
    /\ ApiOff
    /\ SingletonOff

\* self._parse_json_response(response)
ParseJson ==
    /\ prStage = "start"
    /\ LET r == parse_json_response(prText) IN
       IF r.raised
       THEN /\ prStage' = "raised"
            /\ UNCHANGED prResult
       ELSE /\ prStage' = "returned"
            /\ prResult' = r.value
    /\ UNCHANGED <<prText, apiKey, plVars, apiVars, singletonVars>>

NextParser == ParseJson

SpecParser == InitParser /\ [][NextParser]_vars

-----------------------------------------------------------------------------
(* RedisManager.__new__ (utils.py lines 20-28) and the construction at     *)
(* import (line 156).  The module body runs once, under the import lock:   *)
(* no other caller holds the class before redis_manager is bound.  Later   *)
(* constructions (cache_result's wrapper, line 133) may come from any      *)
(* thread, a thread switch being possible between any two lines.           *)

\* Caller 0 is the module body; the others are the callers after import.
MaxCallers   == 4
\* Most instances the model lets be created (reached only were __new__
\* to create more than one).
MaxInstances == 3
Importer == 0
Callers  == 0..MaxCallers

\* A faulty variant of the test below: every construction creates.
InstanceIsNoneAlways(instance) == TRUE
\* if cls._instance is None: (line 25)
InstanceIsNone(instance) == instance = 0

InitSingleton ==
    /\ smInstance = 0
    /\ smCreated = 0
    /\ smInits = 0
    /\ smPc = [c \in Callers |-> "idle"]
    /\ smGot = [c \in Callers |-> 0]
    /\ apiKey = FALSE
    /\ PipelineOff
    /\ ApiOff
    /\ ParserOff

\* What a step of __new__ leaves alone.
OutsideSingleton == <<apiKey, plVars, apiVars, parseVars>>

\* RedisManager(): the module body calls it once; any other caller only
\* after the import has bound redis_manager.
Construct ==
    \E c \in Callers :
        /\ smPc[c] = "idle"
        /\ IF c = Importer THEN smGot[Importer] = 0 ELSE smGot[Importer] # 0
        /\ smPc' = [smPc EXCEPT ![c] = "test"]
        /\ UNCHANGED <<smInstance, smCreated, smInits, smGot, OutsideSingleton>>

\* Line 25.
TestInstance ==
    \E c \in Callers :
        /\ smPc[c] = "test"
        /\ smPc' = [smPc EXCEPT ![c] = IF InstanceIsNone(smInstance) THEN "create"
                                       ELSE "return"]
        /\ UNCHANGED <<smInstance, smCreated, smInits, smGot, OutsideSingleton>>

\* Line 26: cls._instance = super(RedisManager, cls).__new__(cls)
CreateInstance ==
    \E c \in Callers :
        /\ smPc[c] = "create"
        /\ smCreated < MaxInstances
        /\ smCreated' = smCreated + 1
        /\ smInstance' = smCreated + 1
        /\ smPc' = [smPc EXCEPT ![c] = "init"]
        /\ UNCHANGED <<smInits, smGot, OutsideSingleton>>

\* Line 27: cls._instance._initialize()
Initialize ==
    \E c \in Callers :
        /\ smPc[c] = "init"
        /\ smInits' = smInits + 1
        /\ smPc' = [smPc EXCEPT ![c] = "return"]
        /\ UNCHANGED <<smInstance, smCreated, smGot, OutsideSingleton>>

\* Line 28: return cls._instance
ReturnInstance ==
    \E c \in Callers :
        /\ smPc[c] = "return"
        /\ smGot' = [smGot EXCEPT ![c] = smInstance]
        /\ smPc' = [smPc EXCEPT ![c] = "idle"]
        /\ UNCHANGED <<smInstance, smCreated, smInits, OutsideSingleton>>

NextSingleton ==
    Construct \/ TestInstance \/ CreateInstance \/ Initialize \/ ReturnInstance

SpecSingleton == InitSingleton /\ [][NextSingleton]_vars

-----------------------------------------------------------------------------
(* What the claims speak of.                                               *)

ContentFields == {"summary", "milestones", "updates", "tasks", "blockers", "actions"}
Content(r) == [k \in ContentFields |-> r[k]]

IsDashboard(rec) == rec.op = "dashboard"
IsClear(rec)     == rec.op = "clear"

\* This step is the return of the dashboard request in flight.
DashboardReturns == pc # "idle" /\ pc' = "idle"

-----------------------------------------------------------------------------
(* C1 (confirmed, Spec).  A POST /dashboard request without the bypass     *)
(* flag, with the backend reachable, whose get(key) returned a stored      *)
(* result, answers with that stored result and cached = true, and did not  *)
(* call run_agents.                                                        *)
C1_HitServedFromCache ==
    (IsDashboard(last) /\ ~last.no_cache /\ last.getCalled /\ Truthy(last.got))
    => /\ last.status = "ok"
       /\ last.key \in DOMAIN store
       /\ Content(last.response) = Content(json_loads(store[last.key]))
       /\ last.response.cached = TRUE
       /\ last.response.cache_key = generate_cache_key(last.bytes)
       /\ ~last.ran
       /\ ~last.tmp

C1_Witness ==
    /\ IsDashboard(last)
    /\ last.lookup = "hit"
    /\ last.response.cached = TRUE
    /\ Len(last.response.blockers) = 2
    /\ ~last.ran

-----------------------------------------------------------------------------
(* C2 (code_bug, Spec).  The claim: two POST /dashboard requests in        *)
(* sequence on identical bytes, without bypass, with no clear in between   *)
(* and no fault of the cache backend, return identical content, the first  *)
(* with cached = false and the second with cached = true, whatever the     *)
(* bytes.  It is stated for the pairs in which both requests answer.  A    *)
(* sheet with a date cell refutes it: set swallows the TypeError of        *)
(* json.dumps, nothing is stored and the second request is a miss.         *)
C2_TwiceSameContentSecondCached ==
    [][ ( /\ IsDashboard(last) /\ ~last.no_cache /\ last.lookup = "miss"
          /\ last.status = "ok" /\ ~last.fault
          /\ DashboardReturns
          /\ cur.bytes = last.bytes /\ ~cur.no_cache
          /\ last'.status = "ok" /\ ~last'.fault )
        => ( /\ last.response.cached = FALSE
             /\ last'.response.cached = TRUE
             /\ Content(last'.response) = Content(last.response) ) ]_vars

-----------------------------------------------------------------------------
(* C3 (corrected, Spec).  Original: once a dashboard result is cached,     *)
(* clear("*") deletes at least one key (count >= 1) and the next request   *)
(* with the identical bytes is a miss that runs the orchestrator and       *)
(* returns cached = false.                                                 *)
ClearStarOverEntries(rec) == IsClear(rec) /\ rec.glob = "*" /\ rec.matched # {}

-----------------------------------------------------------------------------
(* C4 (code_bug, SpecPipeline).  The claim: with a completion client       *)
(* configured, a failure of the Blocker Stage's completion call does not   *)
(* fail the stage, which returns the deterministic blockers without an     *)
(* analysis entry.  run_agents is "raised" with no blockers returned       *)
(* exactly when blocker_detection_agent_task raised.                       *)
C4_BlockerStageSurvivesCompletionFailure ==
    apiKey => ~(plStage = "raised" /\ plBlockers = NoValue)

-----------------------------------------------------------------------------
(* C5 (code_bug, SpecPipeline).  The claim: with a completion client       *)
(* configured, a failure of the Action Stage's completion call does not    *)
(* fail the stage, which returns the deterministic actions without the     *)
(* appended plan.  run_agents is "raised" with the blockers returned       *)
(* exactly when action_planner_agent_task raised.                          *)
C5_ActionStageSurvivesCompletionFailure ==
    apiKey => ~(plStage = "raised" /\ plBlockers # NoValue)

-----------------------------------------------------------------------------
(* C6 (code_bug, Spec).  The claim: when the backend is unreachable or a   *)
(* get command fails, no error reaches the caller, the orchestrator is     *)
(* invoked and the computed result is returned with cached = false.        *)
C6_CacheFaultHandledAsDisabled ==
    (IsDashboard(last) /\ last.lookup \in {"unreachable", "get_failed"})
    => /\ last.ran
       /\ last.status = "ok"
       /\ last.response = last.computed
       /\ last.response.cached = FALSE

-----------------------------------------------------------------------------
(* C7 (confirmed, Spec).  When set(key, response_data) fails (the inner    *)
(* ping or the SET command raises RedisError, or json.dumps raises         *)
(* TypeError), nothing is propagated: the request returns the computed     *)
(* result with cached = false, and the key holds what it held before (no   *)
(* entry is created).                                                      *)
C7_SetFailureSwallowed ==
    (IsDashboard(last) /\ last.setCalled /\ ~last.setOk)
    => /\ last.status = "ok"
       /\ last.response = last.computed
       /\ last.response.cached = FALSE
       /\ IF last.entryBefore = NoValue
          THEN last.key \notin DOMAIN store
          ELSE last.key \in DOMAIN store /\ store[last.key] = last.entryBefore

C7_Witness ==
    /\ IsDashboard(last) /\ last.setCalled /\ ~last.setOk
    /\ ~JsonEncodable(last.computed)
    /\ last.status = "ok"
    /\ last.key \notin DOMAIN store

-----------------------------------------------------------------------------
(* C8 (confirmed, Spec).  With the bypass flag set no get is attempted and *)
(* run_agents is called, entry or no entry; afterwards, if is_connected()  *)
(* is true, set(key, response_data) is called with the fresh result, which *)
(* on success is what the key then holds, replacing what it held.          *)
C8_BypassSkipsGetThenSets ==
    (IsDashboard(last) /\ last.no_cache)
    => /\ last.lookup = "bypass"
       /\ ~last.getCalled
       /\ last.ran
       /\ (last.status = "ok" /\ last.setLive) => last.setCalled
       /\ last.setOk
          => /\ last.key \in DOMAIN store
             /\ json_loads(store[last.key]) = last.response

C8_Witness ==
    /\ IsDashboard(last) /\ last.no_cache
    /\ last.setOk
    /\ last.entryBefore # NoValue
    /\ last.entryBefore # store[last.key]

-----------------------------------------------------------------------------
(* C9 (code_bug, SpecPipeline).  The claim: for a source that is missing,  *)
(* cannot be loaded or has no rows, the loader substitutes the one-row     *)
(* placeholder and run_agents does not raise: it returns a context with    *)
(* exactly one task, a blocker report and an action report.                *)
BadSource(src) == src.kind # "table" \/ src.df.rows = << >>

C9_BadDataNeverRaises ==
    BadSource(plSrc)
    => /\ plStage # "raised"
       /\ plStage # "start" => plData = PlaceholderData
       /\ plStage = "done"
          => /\ Len(plContext.tasks) = 1
             /\ plBlockers # NoValue
             /\ plActions # NoValue

-----------------------------------------------------------------------------
(* C10 (corrected, SpecPipeline).  Original: the deterministic output of   *)
(* the Blocker Stage is the subsequence of the tasks whose status,         *)
(* lower-cased and trimmed of whitespace, is one of blocked, delayed,      *)
(* overdue, not started, pending, in task order, each as a record that     *)
(* copies task, owner and due and has the untrimmed status as reason; the  *)
(* statuses "Blocked", "Done", "pending ", " OVERDUE" give 3 records.      *)
ClaimedStatuses ==
    { <<"b", "l", "o", "c", "k", "e", "d">>,
      <<"d", "e", "l", "a", "y", "e", "d">>,
      <<"o", "v", "e", "r", "d", "u", "e">>,
      <<"n", "o", "t", " ", "s", "t", "a", "r", "t", "e", "d">>,
      <<"p", "e", "n", "d", "i", "n", "g">> }

\* cs is w in some letter case, between runs of whitespace.
Normalises(cs, w) ==
    \E i \in 0..Len(cs) :
        /\ i + Len(w) <= Len(cs)
        /\ \A k \in 1..i : cs[k] \in Whitespace
        /\ \A k \in 1..Len(w) : LowerChar(cs[i + k]) = w[k]
        /\ \A k \in (i + Len(w) + 1)..Len(cs) : cs[k] \in Whitespace

StatusBlocks(task) == \E w \in ClaimedStatuses : Normalises(PyStr(task.Status).v, w)

ExpectedBlockers(tasks, Due(_)) ==
    LET keep == SelectSeq(tasks, StatusBlocks) IN
    [i \in 1..Len(keep) |->
        [task   |-> keep[i].Task,
         reason |-> keep[i].Status,
         owner  |-> keep[i].Owner,
         due    |-> Due(keep[i])]]

HasTask(b) == "task" \in DOMAIN b
\* The stage's output without the analysis entry enrichment appends.
Deterministic(blockers) == SelectSeq(blockers.blockers, HasTask)

DueCopied(task) == task.DueDate
DueAsText(task) == PyStr(task.DueDate)

BlockerStageReturned == plStage \in {"blockers", "done"}

-----------------------------------------------------------------------------
(* C11 (corrected, SpecPipeline).  Original: in every run, with or without *)
(* enrichment, the blockers sequence of the Blocker Stage's report has at  *)
(* most as many entries as the context has tasks.                          *)
C11_Original_BlockersAtMostTasks ==
    BlockerStageReturned => Len(plBlockers.blockers) <= Len(plContext.tasks)

(* C11 as amended: the blocker records among the entries (the entries that *)
(* carry a task, not the analysis entry enrichment appends) are at most as *)
(* many as the tasks; the sequence itself is longer than the records by    *)
(* one exactly when the stage's completion call returned.                  *)
AnalysisCallReturned == [stage |-> "blocker", ok |-> TRUE] \in plCalls

C11_BlockerRecordsAtMostTasks ==
    BlockerStageReturned
    => /\ Len(Deterministic(plBlockers)) <= Len(plContext.tasks)
       /\ Len(plBlockers.blockers) =
            Len(Deterministic(plBlockers)) + (IF AnalysisCallReturned THEN 1 ELSE 0)

C11_Witness ==
    /\ plStage = "blockers"
    /\ Len(plContext.tasks) = 2
    /\ Len(Deterministic(plBlockers)) = 2
    /\ Len(plBlockers.blockers) = 3

-----------------------------------------------------------------------------
(* C12 (confirmed, SpecPipeline).  Every report the Action Stage returns   *)
(* has at least one action, and every action is a string: for the report   *)
(* of the run (no blockers, blocker records, records and an analysis       *)
(* entry), for a report whose only entry lacks a task, with and without a  *)
(* completion client.                                                      *)
TasklessReport == [blockers |-> << [llm_analysis |-> Str(<<"Risk">>)] >>]

NonEmptyStrings(actions) ==
    /\ Len(actions) >= 1
    /\ \A i \in 1..Len(actions) : actions[i].t = "str"

C12_ActionsNeverEmpty ==
    plStage = "done"
    => /\ NonEmptyStrings(plActions.actions)
       /\ \A llm \in PlanOutcomes :
            LET r == action_planner_agent_task(plContext, TasklessReport, apiKey, llm)
            IN  ~r.raised => NonEmptyStrings(r.value.actions)

C12_Witness ==
    /\ plStage = "done"
    /\ ~apiKey
    /\ plBlockers.blockers = << >>
    /\ Len(plActions.actions) = 1

-----------------------------------------------------------------------------
(* C13 (corrected, SpecPipeline).  Original: the Action Stage applied to a *)
(* report with empty blockers always yields exactly the one-element        *)
(* sequence ["No immediate actions required. Monitor project progress."].  *)
ClaimedFallback == Str(<<"No immediate actions required. Monitor project progress.">>)

C13_Original_EmptyBlockersOnlyFallback ==
    (plStage = "done" /\ plBlockers.blockers = << >>)
    => plActions.actions = <<ClaimedFallback>>

(* C13 as amended: the actions the stage returns for a report with empty   *)
(* blockers are exactly the fallback when no completion client is          *)
(* configured, and the fallback followed by the one appended plan when one *)
(* is configured.                                                          *)
PlanCallReturned == [stage |-> "action", ok |-> TRUE] \in plCalls

C13_EmptyBlockersFallbackFirst ==
    (plStage = "done" /\ plBlockers.blockers = << >>)
    => /\ plActions.actions[1] = ClaimedFallback
       /\ ~apiKey => plActions.actions = <<ClaimedFallback>>
       /\ apiKey => /\ Len(plActions.actions) = 2
                    /\ PlanCallReturned
                    /\ plActions.actions[2].t = "str"

C13_Witness ==
    /\ plStage = "done"
    /\ plBlockers.blockers = << >>
    /\ apiKey
    /\ Len(plActions.actions) = 2
    /\ plActions.actions[1] = ClaimedFallback

-----------------------------------------------------------------------------
(* C14 (corrected, SpecPipeline).  Original: the Action Stage emits one    *)
(* follow-up string, in blocker order, for every blocker record with a     *)
(* non-empty task field, and none for a record whose task field is empty;  *)
(* the fallback is emitted only when no follow-up was produced.            *)
ClaimedFollowUp(b) ==
    Str(<<"Follow up with ">> \o b.owner.v \o <<" on '">> \o b.task.v
        \o <<"' (Reason: ">> \o b.reason.v \o <<", Due: ">> \o b.due.v \o <<")">>)

HasNonEmptyTask(b) == HasTask(b) /\ b.task # EmptyStr

\* The actions without the plan enrichment appends.
DeterministicActions ==
    IF PlanCallReturned
    THEN SubSeq(plActions.actions, 1, Len(plActions.actions) - 1)
    ELSE plActions.actions

ExpectedActions(from) ==
    IF from = << >> THEN <<ClaimedFallback>>
    ELSE [i \in 1..Len(from) |-> ClaimedFollowUp(from[i])]

C14_Original_FollowUpPerNonEmptyTask ==
    plStage = "done"
    => DeterministicActions =
         ExpectedActions(SelectSeq(plBlockers.blockers, HasNonEmptyTask))

(* C14 as amended: one follow-up string, in blocker order, for every entry *)
(* of blockers that has a task field, its task empty or not, and none for  *)
(* an entry without one (the analysis entry); the fallback is emitted only *)
(* when no follow-up was produced.                                         *)
C14_FollowUpPerTaskField ==
    plStage = "done"
    => DeterministicActions = ExpectedActions(SelectSeq(plBlockers.blockers, HasTask))

C14_Witness ==
    /\ plStage = "done"
    /\ \E i \in 1..Len(plBlockers.blockers) :
         HasTask(plBlockers.blockers[i]) /\ plBlockers.blockers[i].task = EmptyStr
    /\ \E j \in 1..Len(plBlockers.blockers) : ~HasTask(plBlockers.blockers[j])
    /\ Len(DeterministicActions) = Len(plBlockers.blockers) - 1
    /\ DeterministicActions[1] # ClaimedFallback

-----------------------------------------------------------------------------
(* C15 (confirmed, SpecPipeline).  The actions the Action Stage returns    *)
(* with a completion client configured are the actions it returns for the  *)
(* same context and blockers without one, unchanged and in order, followed *)
(* by at most one more string.                                             *)
ActionsWithoutClient ==
    action_planner_agent_task(plContext, plBlockers, FALSE, CompletionFailed).value.actions

C15_EnrichmentOnlyAppends ==
    (plStage = "done" /\ apiKey)
    => /\ Len(plActions.actions) \in {Len(ActionsWithoutClient),
                                      Len(ActionsWithoutClient) + 1}
       /\ SubSeq(plActions.actions, 1, Len(ActionsWithoutClient)) = ActionsWithoutClient
       /\ \A i \in 1..Len(plActions.actions) : plActions.actions[i].t = "str"

C15_Witness ==
    /\ plStage = "done"
    /\ apiKey
    /\ Len(ActionsWithoutClient) = 2
    /\ Len(plActions.actions) = 3
    /\ SubSeq(plActions.actions, 1, 2) = ActionsWithoutClient

-----------------------------------------------------------------------------
(* C16 (confirmed, Spec).  With no completion client configured, a request *)
(* for an upload that has no entry in the cache yet (the first request for *)
(* it) and whose rows hold k >= 1 blocker statuses returns blockers of     *)
(* length k, actions of length k and cached = false; the sheet with the    *)
(* statuses Blocked, In Progress, Delayed gives 2 and 2.                   *)
UploadBlockerCount(bytes) ==
    LET src == ReadExcel(bytes) IN
    IF src.kind # "table" THEN 0
    ELSE Cardinality({i \in 1..Len(src.df.rows) :
                        StatusBlocks([Status |-> src.df.rows[i]["Status"]])})

C16_FirstRequestWithoutClient ==
    [][(/\ DashboardReturns
        /\ ~apiKey
        /\ cur.key \notin DOMAIN store
        /\ UploadBlockerCount(cur.bytes) >= 1)
       => /\ last'.status = "ok"
          /\ Len(last'.response.blockers) = UploadBlockerCount(cur.bytes)
          /\ Len(last'.response.actions) = UploadBlockerCount(cur.bytes)
          /\ last'.response.cached = FALSE
          /\ cur.bytes = "sheet" => Len(last'.response.blockers) = 2]_vars

C16_Witness ==
    /\ IsDashboard(last)
    /\ ~apiKey
    /\ last.bytes = "sheet"
    /\ last.setCalled /\ last.entryBefore = NoValue
    /\ last.status = "ok"
    /\ Len(last.response.blockers) = 2
    /\ Len(last.response.actions) = 2
    /\ last.response.cached = FALSE

-----------------------------------------------------------------------------
(* C17 (confirmed, SpecPipeline).  The Blocker Stage calls the completion  *)
(* service only when a completion client is configured and some task has a *)
(* blocker status; its output has an analysis entry only when that call    *)
(* returned; with no blockers the output is empty, never enriched.         *)
SomeTaskBlocks == \E i \in 1..Len(plContext.tasks) : StatusBlocks(plContext.tasks[i])

HasAnalysis(blockers) ==
    \E i \in 1..Len(blockers.blockers) : "llm_analysis" \in DOMAIN blockers.blockers[i]

C17_AnalysisOnlyWithClientAndBlockers ==
    /\ (\E c \in plCalls : c.stage = "blocker") => (apiKey /\ SomeTaskBlocks)
    /\ BlockerStageReturned
       => /\ HasAnalysis(plBlockers) => (AnalysisCallReturned /\ SomeTaskBlocks)
          /\ ~SomeTaskBlocks => plBlockers.blockers = << >>

C17_Witness ==
    /\ plStage = "blockers"
    /\ HasAnalysis(plBlockers)
    /\ AnalysisCallReturned
    /\ apiKey

-----------------------------------------------------------------------------
(* C18 (code_bug, SpecPipeline).  The claim: for a non-empty row sequence  *)
(* the tasks are as many as the rows, and every field of every task is a   *)
(* string, also when the row lacks the column or the cell is blank.        *)
C18_TaskFieldsAreStrings ==
    (plContext # NoValue /\ plData.rows # << >>)
    => /\ Len(plContext.tasks) = Len(plData.rows)
       /\ \A i \in 1..Len(plContext.tasks) :
            \A f \in DOMAIN plContext.tasks[i] : plContext.tasks[i][f].t = "str"

-----------------------------------------------------------------------------
(* C19 (confirmed, SpecPipeline).  The milestones are the values of the    *)
(* Month column with the blank cells left out and duplicates removed, in   *)
(* order of first occurrence; without the column they are empty.           *)
MonthColumn ==
    IF "Month" \in plData.columns
    THEN [i \in 1..Len(plData.rows) |-> plData.rows[i]["Month"]]
    ELSE << >>

IsBlank(cell) == cell.t = "float"

FirstAt(cells, v) ==
    CHOOSE i \in 1..Len(cells) : cells[i] = v /\ \A j \in 1..(i - 1) : cells[j] # v

C19_MilestonesUniqueInOrder ==
    plContext # NoValue
    => LET ms == plContext.milestones IN
       /\ "Month" \notin plData.columns => ms = << >>
       /\ \A i \in 1..Len(ms) :
            /\ ~IsBlank(ms[i])
            /\ \E k \in 1..Len(MonthColumn) : MonthColumn[k] = ms[i]
       /\ \A k \in 1..Len(MonthColumn) :
            ~IsBlank(MonthColumn[k]) => \E i \in 1..Len(ms) : ms[i] = MonthColumn[k]
       /\ \A i, j \in 1..Len(ms) :
            i < j => /\ ms[i] # ms[j]
                     /\ FirstAt(MonthColumn, ms[i]) < FirstAt(MonthColumn, ms[j])

C19_Witness ==
    /\ plContext # NoValue
    /\ plSrc = Table(AllColumns, FourStatuses)
    /\ plContext.milestones = <<Str(<<"Jan">>), Str(<<"Feb">>)>>

-----------------------------------------------------------------------------
(* C20 (code_bug, SpecParser).  The claim: _parse_json_response raises on  *)
(* no text; when the text from the first '{' to the last '}' parses as     *)
(* JSON it returns that mapping, whatever precedes and follows it, and     *)
(* when there is no brace pair or the text between does not parse it       *)
(* returns the error value.                                                *)
HasBracePair(text) ==
    \E i, j \in 1..Len(text) : i < j /\ text[i] = "{" /\ text[j] = "}"

BraceSpan(text) ==
    LET i == CHOOSE i \in 1..Len(text) :
               text[i] = "{" /\ \A k \in 1..(i - 1) : text[k] # "{"
        j == CHOOSE j \in 1..Len(text) :
               text[j] = "}" /\ \A k \in (j + 1)..Len(text) : text[k] # "}"
    IN  SubSeq(text, i, j)

\* The JSON objects the tokens can spell.
ParsesAsJson(span) ==
    span \in { <<"{", "}">>, <<"{", Member, "}">>, <<"{", HugeMember, "}">> }

IsParseError(result) == "error" \in DOMAIN result

C20_ParseJsonNeverRaises ==
    prStage # "start"
    => /\ prStage = "returned"
       /\ IF HasBracePair(prText) /\ ParsesAsJson(BraceSpan(prText))
          THEN /\ ~IsParseError(prResult)
               /\ BraceSpan(prText) = <<"{", Member, "}">> => prResult = [a |-> 1]
          ELSE IsParseError(prResult)

-----------------------------------------------------------------------------
(* C21 (confirmed, Spec).  The cache key of a request is the fixed prefix  *)
(* "dashboard:" and a digest of the uploaded bytes alone: two requests     *)
(* with the same bytes have the same key, whatever their bypass flags, the *)
(* cache contents and the backend state when each came.                    *)
C21_KeyFromBytesOnly ==
    /\ cur # NoRequest => cur.key.prefix = "dashboard:"
    /\ (IsDashboard(last) /\ cur # NoRequest)
       => (cur.bytes = last.bytes <=> cur.key = last.key)

C21_Witness ==
    /\ IsDashboard(last) /\ cur # NoRequest
    /\ cur.bytes = last.bytes
    /\ cur.no_cache # last.no_cache
    /\ last.setOk
    /\ cur.lookup = "unreachable"
    /\ cur.key = last.key
    /\ cur.key \in DOMAIN store

-----------------------------------------------------------------------------
-----------------------------------------------------------------------------
(* C23 (code_bug, Spec).  The claim: every successful response, on a hit   *)
(* and on a miss, has the fields summary, milestones, updates, tasks,      *)
(* blockers, actions, cached and the cache key.                            *)
ResponseFields == ContentFields \cup {"cached", "cache_key"}

C23_ResponseHasAllFields ==
    (IsDashboard(last) /\ last.status = "ok")
    => ResponseFields \subseteq DOMAIN last.response

-----------------------------------------------------------------------------
(* C24 (confirmed, SpecSingleton).  Over every interleaving of the         *)
(* constructions, _initialize runs at most once, exactly once from the     *)
(* moment the import has bound redis_manager, and every caller is returned *)
(* the one instance.                                                       *)
C24_OneInstanceOneInitialization ==
    /\ smInits <= 1
    /\ smCreated <= 1
    /\ smGot[Importer] # 0 => smInits = 1
    /\ \A c \in Callers : smGot[c] \in {0, smGot[Importer]}
    /\ \A c \in Callers : smGot[c] # 0 => smGot[c] = smInstance

C24_Witness ==
    /\ smInits = 1
    /\ \E c, d, e \in Callers \ {Importer} :
         /\ c # d /\ d # e /\ c # e
         /\ smGot[c] = smGot[Importer] /\ smGot[c] # 0
         /\ smPc[d] = "test"
         /\ smPc[e] = "return"

-----------------------------------------------------------------------------
(* C25 (confirmed, Spec).  A request writes no entry before run_agents has *)
(* returned: while it looks up and processes, the cache is unchanged, and  *)
(* a request that ends in the server error raised in run_agents, called no *)
(* set and left every entry as it was, so that the next request for the    *)
(* same bytes misses as this one did.                                      *)
C25_NoEntryWhenPipelineRaises ==
    [][/\ pc \in {"lookup", "process"} => store' = store
       /\ (DashboardReturns /\ last'.status = "error500")
          => /\ pc = "process"
             /\ last'.ran
             /\ ~last'.setCalled
             /\ store' = store]_vars

C25_Witness ==
    /\ IsDashboard(last)
    /\ last.status = "error500"
    /\ last.lookup = "miss"
    /\ cur # NoRequest
    /\ cur.bytes = last.bytes
    /\ cur.lookup = "miss"
    /\ cur.key \notin DOMAIN store

-----------------------------------------------------------------------------
(* C26 (code_bug, Spec).  The claim: with the backend reachable, sets      *)
(* succeeding, no bypass flag and no clear, run_agents is invoked at most  *)
(* once per uploaded content.  Stated over two requests in a row for the   *)
(* same bytes: the first invoked run_agents, no fault of the backend       *)
(* occurred and its set, if it made one, succeeded; then the second does   *)
(* not get past the lookup as a miss.                                      *)
C26_OrchestratorOncePerContent ==
    (/\ IsDashboard(last) /\ last.ran /\ ~last.no_cache /\ ~last.fault
     /\ last.status = "ok" => last.setOk
     /\ cur # NoRequest /\ cur.bytes = last.bytes
     /\ ~cur.no_cache /\ ~cur.fault)
    => cur.lookup # "miss"

-----------------------------------------------------------------------------
(* C27 (confirmed, Spec).  Every entry under a dashboard key is the text   *)
(* of a result run_agents can return for the bytes that hash to that key,  *)
(* and the content a hit answers with is such a result for the bytes of    *)
(* the request.                                                            *)
PossibleResults(bytes) ==
    LET runs == {run_agents(ReadExcel(bytes), apiKey, llmB, llmA) :
                    llmB \in AnalysisOutcomes, llmA \in PlanOutcomes}
    IN  {ResponseData(r.value) : r \in {x \in runs : ~x.raised}}

C27_CacheCoherent ==
    /\ \A k \in DashboardKeys(store) :
         \E b \in Uploads :
            /\ k = generate_cache_key(b)
            /\ \E res \in PossibleResults(b) :
                  json_dumps(res).ok /\ store[k] = json_dumps(res).text
    /\ (IsDashboard(last) /\ last.lookup = "hit")
       => \E res \in PossibleResults(last.bytes) :
             /\ json_dumps(res).ok
             /\ Content(last.response) = Content(json_loads(json_dumps(res).text))

C27_Witness ==
    /\ Cardinality(DashboardKeys(store)) = 2
    /\ IsDashboard(last)
    /\ last.lookup = "hit"
    /\ last.bytes = "junk"

-----------------------------------------------------------------------------
(* C28 (code_bug, Spec).  The claim: the connected flag, once false, stays *)
(* false; from then on every dashboard request runs run_agents and returns *)
(* its result with cached = false, and clear and stats answer that the     *)
(* backend is not available.                                               *)
C28_NeverReconnects ==
    [][~connected
       => /\ ~connected'
          /\ DashboardReturns
             => /\ last'.ran
                /\ last'.status = "ok"
                /\ last'.response.cached = FALSE
          /\ (pc = "idle" /\ pc' = "idle")
             => /\ last'.status = "error"
                /\ last'.message = "Redis is not available"]_vars

=============================================================================
